---- MODULE Spec2Model ----
(***************************************************************************)
(* Cher's Closet: the authorization gates and the error pipeline           *)
(* (auth-middleware, error-types, error-handler) and the database          *)
(* connection manager (pool events, attemptReconnection,                   *)
(* testDatabaseConnection) as state machines.                              *)
(***************************************************************************)
EXTENDS Integers, Sequences, FiniteSets, TLC

VARIABLES
  \* ---- one HTTP request travelling through gate -> handler -> errorHandler
  req,            \* the request: isAuthenticated ("absent" | "false" | "true"), user
  gate,           \* the gate mounted on the route, with its parameters
  reqPc,          \* "idle" | "gate" | "handler" | "error" | "done"
  nextArg,        \* what the gate passed to next()
  nextCalls,      \* how often the gate called next
  extractorCalls, \* how often the gate called getUserId
  handlerCalls,   \* invocations of the route handler behind the gate
  storageCalls,   \* storage calls made for this request
  response,       \* the response written (status 0: none yet)
  production,     \* process.env.NODE_ENV === 'production'
  writer,         \* who wrote the response: "none" | "handler" | "errorHandler"
  wr,             \* a request on a route registered as asyncHandler(fn)
  hr,             \* a request on GET /api/health
  rs,             \* the stored resource and two concurrent requests on /:id
  sh,             \* outfit sharing: the last request and the outfits shared so far
  cal,            \* a request on GET /api/calendar-outfits
  \* ---- the database connection manager
  isLocal,            \* !process.env.REPL_ID
  isReconnecting,
  reconnectAttempts,
  rcConnecting,       \* attemptReconnection runs awaiting pool.connect()
  rcQuerying,         \* attemptReconnection runs awaiting client.query('SELECT 1')
  rcTimers,           \* pending setTimeout(attemptReconnection, RECONNECT_INTERVAL)
  rcHeld,             \* clients held by attemptReconnection runs (acquired, not released)
  consecFails,        \* probe failures since the last successful probe (observer)
  seqProbes,          \* probes started since the error event that began the sequence (observer)
  seqConnected,       \* a pool 'connect' event came since that error event (observer)
  dbLog,              \* the last console line written by the database module
  tdc,                \* the running call of testDatabaseConnection
  vh,                 \* the running call of verifyDatabaseHealth
  tdcHeld             \* clients held by testDatabaseConnection (acquired, not released)

authVars == <<req, gate, reqPc, nextArg, nextCalls, extractorCalls,
              handlerCalls, storageCalls, response, production, writer>>
httpVars == <<authVars, wr, hr>>
rcVars == <<isLocal, isReconnecting, reconnectAttempts, rcConnecting, rcQuerying,
            rcTimers, rcHeld, consecFails, seqProbes, seqConnected>>
tdcVars == <<tdc, tdcHeld>>
dbVars == <<rcVars, tdcVars, vh, dbLog>>
appVars == <<rs, sh, cal>>
vars == <<httpVars, dbVars, appVars>>

(***************************************************************************)
(* Values                                                                  *)
(***************************************************************************)
Undefined == "undefined"

\* JavaScript truthiness of an optional string: undefined and "" are falsy.
Falsy(v) == v \in {Undefined, ""}

\* a || b
OrElse(a, b) == IF Falsy(a) THEN b ELSE a

\* JSON.stringify drops the members whose value is undefined.
JsonObject(o) == [k \in {m \in DOMAIN o : o[m] # Undefined} |-> o[k]]

\* enum UserRole
UserRole == [USER |-> "user", ADMIN |-> "admin"]

\* new ApiError(message, statusCode, errorCode?, details?)
ApiError(message, statusCode, errorCode, details) ==
  [kind |-> "ApiError", message |-> message, statusCode |-> statusCode,
   errorCode |-> errorCode, details |-> details]

\* next() called without an argument
NoError ==
  [kind |-> "none", message |-> Undefined, statusCode |-> 0,
   errorCode |-> Undefined, details |-> Undefined]

NoResponse == [status |-> 0, body |-> [none |-> TRUE]]

MsgLogin == "You must be logged in to access this resource"
MsgForbidden == "You do not have permission to access this resource"

(***************************************************************************)
(* Inputs                                                                  *)
(***************************************************************************)
MaxUserId == 2

UserIds == 1..MaxUserId
OwnerIds == 1..(MaxUserId + 1)
RoleValues == {Undefined, "", "user", "admin", "moderator"}
NoUser == [present |-> FALSE, id |-> 0, role |-> Undefined]
Users == {NoUser} \cup [present : {TRUE}, id : UserIds, role : RoleValues]
Requests == [isAuthenticated : {"absent", "false", "true"}, user : Users]

\* requireRole's parameter: one role, or an array of roles
RoleParams ==
  [isArray : {FALSE}, role : {"user", "admin"}, roles : {{}}]
    \cup [isArray : {TRUE}, role : {Undefined}, roles : SUBSET {"user", "admin"}]

Gates ==
  [kind : {"requireAuth"}, role : {[isArray |-> FALSE, role |-> "user", roles |-> {}]},
   owner : {0}]
    \cup [kind : {"requireRole"}, role : RoleParams, owner : {0}]
    \cup [kind : {"requireSelfOrAdmin"},
          role : {[isArray |-> FALSE, role |-> "user", roles |-> {}]}, owner : OwnerIds]

(***************************************************************************)
(* auth-middleware                                                         *)
(***************************************************************************)
\* !req.isAuthenticated || !req.isAuthenticated()
NotAuthenticated(r) == r.isAuthenticated = "absent" \/ r.isAuthenticated # "true"

\* requireAuth testing only that req.isAuthenticated exists, never calling it
requireAuth_PresenceOnly(r) ==
  IF r.isAuthenticated = "absent"
    THEN ApiError(MsgLogin, 401, Undefined, Undefined)
    ELSE NoError

requireAuth(r) ==
  IF NotAuthenticated(r)
    THEN ApiError(MsgLogin, 401, Undefined, Undefined)
    ELSE NoError

\* Array.isArray(role) ? role : [role]
RequiredRoles(role) == IF role.isArray THEN role.roles ELSE {role.role}

\* requireRole without the default for a missing role
requireRole_NoDefault(role, r) ==
  IF NotAuthenticated(r) \/ ~r.user.present
    THEN ApiError(MsgLogin, 401, Undefined, Undefined)
    ELSE IF r.user.role \notin RequiredRoles(role)
           THEN ApiError(MsgForbidden, 403, Undefined, Undefined)
           ELSE NoError

requireRole(role, r) ==
  IF NotAuthenticated(r) \/ ~r.user.present
    THEN ApiError(MsgLogin, 401, Undefined, Undefined)
    ELSE LET userRole == OrElse(r.user.role, UserRole.USER)
         IN IF userRole \notin RequiredRoles(role)
              THEN ApiError(MsgForbidden, 403, Undefined, Undefined)
              ELSE NoError

\* requireSelfOrAdmin denying when either test fails (|| for &&)
requireSelfOrAdmin_Either(resourceUserId, r) ==
  IF NotAuthenticated(r) \/ ~r.user.present
    THEN ApiError(MsgLogin, 401, Undefined, Undefined)
    ELSE LET userRole == OrElse(r.user.role, UserRole.USER)
         IN IF r.user.id # resourceUserId \/ userRole # UserRole.ADMIN
              THEN ApiError(MsgForbidden, 403, Undefined, Undefined)
              ELSE NoError

\* resourceUserId is what getUserId(req) returned
requireSelfOrAdmin(resourceUserId, r) ==
  IF NotAuthenticated(r) \/ ~r.user.present
    THEN ApiError(MsgLogin, 401, Undefined, Undefined)
    ELSE LET userRole == OrElse(r.user.role, UserRole.USER)
         IN IF r.user.id # resourceUserId /\ userRole # UserRole.ADMIN
              THEN ApiError(MsgForbidden, 403, Undefined, Undefined)
              ELSE NoError

\* getUserId called before the authentication check
ExtractorCalled_BeforeAuthCheck(g, r) == g.kind = "requireSelfOrAdmin"

\* getUserId is called only after the authentication check passed
ExtractorCalled(g, r) ==
  g.kind = "requireSelfOrAdmin" /\ ~(NotAuthenticated(r) \/ ~r.user.present)

GateResult(g, r) ==
  CASE g.kind = "requireAuth" -> requireAuth(r)
    [] g.kind = "requireRole" -> requireRole(g.role, r)
    [] g.kind = "requireSelfOrAdmin" -> requireSelfOrAdmin(g.owner, r)

(***************************************************************************)
(* error-handler                                                           *)
(***************************************************************************)
\* an errorHandler that sends errorCode as it is, without the default
errorHandler_NoDefaultCode(err, inProduction) ==
  CASE err.kind = "ApiError" ->
         [status |-> err.statusCode,
          body |-> [error |-> JsonObject(
                      [message |-> err.message,
                       code |-> err.errorCode,
                       details |-> err.details])]]
    [] err.kind = "ZodError" ->
         [status |-> 400,
          body |-> [error |-> JsonObject(
                      [message |-> "Validation error",
                       code |-> "VALIDATION_ERROR",
                       details |-> err.details])]]
    [] OTHER ->
         [status |-> 500,
          body |-> [error |-> JsonObject(
                      [message |-> IF inProduction THEN "An unexpected error occurred"
                                                   ELSE err.message,
                       code |-> "INTERNAL_SERVER_ERROR"])]]

\* an errorHandler that sends the original message in every mode
errorHandler_LeaksMessage(err, inProduction) ==
  CASE err.kind = "ApiError" ->
         [status |-> err.statusCode,
          body |-> [error |-> JsonObject(
                      [message |-> err.message,
                       code |-> OrElse(err.errorCode, "ERROR_" \o ToString(err.statusCode)),
                       details |-> err.details])]]
    [] err.kind = "ZodError" ->
         [status |-> 400,
          body |-> [error |-> JsonObject(
                      [message |-> "Validation error",
                       code |-> "VALIDATION_ERROR",
                       details |-> err.details])]]
    [] OTHER ->
         [status |-> 500,
          body |-> [error |-> JsonObject(
                      [message |-> err.message,
                       code |-> "INTERNAL_SERVER_ERROR"])]]

errorHandler(err, inProduction) ==
  CASE err.kind = "ApiError" ->
         [status |-> err.statusCode,
          body |-> [error |-> JsonObject(
                      [message |-> err.message,
                       code |-> OrElse(err.errorCode,
                                       "ERROR_" \o ToString(err.statusCode)),
                       details |-> err.details])]]
    [] err.kind = "ZodError" ->
         [status |-> 400,
          body |-> [error |-> JsonObject(
                      [message |-> "Validation error",
                       code |-> "VALIDATION_ERROR",
                       details |-> err.details])]]
    [] OTHER ->
         [status |-> 500,
          body |-> [error |-> JsonObject(
                      [message |-> IF inProduction
                                     THEN "An unexpected error occurred"
                                     ELSE err.message,
                       code |-> "INTERNAL_SERVER_ERROR"])]]

(***************************************************************************)
(* A request through a gated route                                         *)
(***************************************************************************)
AuthInit ==
  /\ req = [isAuthenticated |-> "absent", user |-> NoUser]
  /\ gate = [kind |-> "requireAuth",
             role |-> [isArray |-> FALSE, role |-> "user", roles |-> {}], owner |-> 0]
  /\ reqPc = "idle"
  /\ nextArg = NoError
  /\ nextCalls = 0
  /\ extractorCalls = 0
  /\ handlerCalls = 0
  /\ storageCalls = 0
  /\ response = NoResponse
  /\ production \in BOOLEAN
  /\ writer = "none"

\* a request arrives at a route behind one of the gates
Arrive ==
  /\ reqPc \in {"idle", "done"}
  /\ \E r \in Requests, g \in Gates :
       /\ req' = r
       /\ gate' = g
  /\ reqPc' = "gate"
  /\ nextArg' = NoError
  /\ nextCalls' = 0
  /\ extractorCalls' = 0
  /\ handlerCalls' = 0
  /\ storageCalls' = 0
  /\ response' = NoResponse
  /\ writer' = "none"
  /\ UNCHANGED <<appVars, production, wr, hr, dbVars>>

\* the gate runs and calls next: with an error Express skips to errorHandler
RunGate ==
  /\ reqPc = "gate"
  /\ nextArg' = GateResult(gate, req)
  /\ nextCalls' = nextCalls + 1
  /\ extractorCalls' = extractorCalls + (IF ExtractorCalled(gate, req) THEN 1 ELSE 0)
  /\ reqPc' = IF GateResult(gate, req).kind = "none" THEN "handler" ELSE "error"
  /\ UNCHANGED <<appVars, req, gate, handlerCalls, storageCalls, response, production, writer,
                 wr, hr, dbVars>>

\* GET /api/wardrobe: one storage call, answered 200 or, when it throws, 500
RunHandler ==
  /\ reqPc = "handler"
  /\ handlerCalls' = handlerCalls + 1
  /\ storageCalls' = storageCalls + 1
  /\ \E ok \in BOOLEAN :
       response' = IF ok
                     THEN [status |-> 200, body |-> [items |-> req.user.id]]
                     ELSE [status |-> 500,
                           body |-> [message |-> "Failed to fetch wardrobe items"]]
  /\ writer' = "handler"
  /\ reqPc' = "done"
  /\ UNCHANGED <<appVars, req, gate, nextArg, nextCalls, extractorCalls, production, wr, hr, dbVars>>

\* app.use(errorHandler): the error middleware writes the response
RunErrorHandler ==
  /\ reqPc = "error"
  /\ response' = errorHandler(nextArg, production)
  /\ writer' = "errorHandler"
  /\ reqPc' = "done"
  /\ UNCHANGED <<appVars, req, gate, nextArg, nextCalls, extractorCalls, handlerCalls,
                 storageCalls, production, wr, hr, dbVars>>

\* what storage.getOutfit(id) can give: a throw, undefined, or an outfit of some user
OutfitLookups ==
  [how : {"throws", "missing"}, userId : {0}] \cup [how : {"found"}, userId : OwnerIds]

\* GET /api/outfits/:id behind router.use(requireAuth): the handler answers
\* 404, 403 and 500 itself
RunGetOutfit ==
  /\ reqPc = "handler"
  /\ gate.kind = "requireAuth"
  /\ handlerCalls' = handlerCalls + 1
  /\ storageCalls' = storageCalls + 1
  /\ \E outfit \in OutfitLookups :
       response' =
         CASE outfit.how = "throws" ->
                [status |-> 500, body |-> [message |-> "Failed to fetch outfit"]]
           [] outfit.how = "missing" ->
                [status |-> 404, body |-> [message |-> "Outfit not found"]]
           [] ~req.user.present ->
                [status |-> 500, body |-> [message |-> "Failed to fetch outfit"]]
           [] outfit.userId # req.user.id ->
                [status |-> 403, body |-> [message |-> "Forbidden"]]
           [] OTHER ->
                [status |-> 200, body |-> [outfit |-> outfit.userId]]
  /\ writer' = "handler"
  /\ reqPc' = "done"
  /\ UNCHANGED <<appVars, req, gate, nextArg, nextCalls, extractorCalls, production, wr, hr, dbVars>>

NextAuth == Arrive \/ RunGate \/ RunHandler \/ RunGetOutfit \/ RunErrorHandler

(***************************************************************************)
(* A request on a route registered as asyncHandler(fn)                     *)
(***************************************************************************)
\* the error values a handler can throw or reject with
ThrownErrors ==
  {ApiError(m, st, c, d) : m \in {"X", "Y"}, st \in {404, 500},
                           c \in {Undefined, "", "NOT_FOUND"}, d \in {Undefined, "d"}}
    \cup {[kind |-> "ZodError", message |-> "invalid", statusCode |-> 0,
           errorCode |-> Undefined, details |-> "formatted issues"]}
    \cup {[kind |-> "Error", message |-> m, statusCode |-> 0,
           errorCode |-> Undefined, details |-> Undefined] : m \in {"X", "Y"}}

\* fn: declared async or not, and what its body does
Handlers ==
  [async : BOOLEAN, how : {"return"}, error : {NoError}]
    \cup [async : BOOLEAN, how : {"throw", "reject"}, error : ThrownErrors]

\* the call fn(req, res, next) itself throws: only a function that is not async
SyncThrows(fn) == ~fn.async /\ fn.how = "throw"

\* fn(req, res, next) returns a promise that rejects
Rejects(fn) == fn.how = "reject" \/ (fn.async /\ fn.how = "throw")

\* the wrapper passing on a new Error made from the rejection
asyncHandler_Rewraps(fn) ==
  [escaped |-> IF SyncThrows(fn) THEN fn.error ELSE NoError,
   nextCalls |-> IF Rejects(fn) THEN 1 ELSE 0,
   nextArg |-> IF Rejects(fn)
                 THEN [kind |-> "Error", message |-> fn.error.message, statusCode |-> 0,
                       errorCode |-> Undefined, details |-> Undefined]
                 ELSE NoError]

\* Promise.resolve(fn(req, res, next)).catch(next): what escapes the wrapper,
\* and how the wrapper calls next
asyncHandler(fn) ==
  [escaped |-> IF SyncThrows(fn) THEN fn.error ELSE NoError,
   nextCalls |-> IF Rejects(fn) THEN 1 ELSE 0,
   nextArg |-> IF Rejects(fn) THEN fn.error ELSE NoError]

WrIdle ==
  [pc |-> "idle", fn |-> [async |-> TRUE, how |-> "return", error |-> NoError],
   escaped |-> NoError, nextCalls |-> 0, nextArg |-> NoError, errorArg |-> NoError,
   responses |-> 0, response |-> NoResponse]

WrInit == wr = WrIdle

\* the request reaches the wrapper, which calls fn; an exception leaving the
\* wrapper is caught by the router, which calls next(err) itself
WrArrive ==
  /\ wr.pc \in {"idle", "done"}
  /\ \E fn \in Handlers :
       wr' = IF SyncThrows(fn)
               THEN [WrIdle EXCEPT !.fn = fn, !.pc = "error",
                                   !.escaped = asyncHandler(fn).escaped,
                                   !.errorArg = asyncHandler(fn).escaped]
               ELSE [WrIdle EXCEPT !.fn = fn, !.pc = "pending"]
  /\ UNCHANGED <<appVars, authVars, hr, dbVars>>

\* the promise settles: .catch(next) on a rejection, else fn has answered
WrSettle ==
  /\ wr.pc = "pending"
  /\ wr' = IF asyncHandler(wr.fn).nextCalls > 0
             THEN [wr EXCEPT !.pc = "error",
                             !.nextCalls = @ + asyncHandler(wr.fn).nextCalls,
                             !.nextArg = asyncHandler(wr.fn).nextArg,
                             !.errorArg = asyncHandler(wr.fn).nextArg]
             ELSE [wr EXCEPT !.pc = "done", !.responses = @ + 1,
                             !.response = [status |-> 200, body |-> [ok |-> TRUE]]]
  /\ UNCHANGED <<appVars, authVars, hr, dbVars>>

\* app.use(errorHandler)
WrErrorHandler ==
  /\ wr.pc = "error"
  /\ wr' = [wr EXCEPT !.pc = "done", !.responses = @ + 1,
                      !.response = errorHandler(wr.errorArg, production)]
  /\ UNCHANGED <<appVars, authVars, hr, dbVars>>

NextWrapped == WrArrive \/ WrSettle \/ WrErrorHandler

(***************************************************************************)
(* Database connection manager: pool events and attemptReconnection        *)
(***************************************************************************)
MAX_RECONNECT_ATTEMPTS == 10

\* max: parseInt(process.env.DB_POOL_SIZE || '10'), drawn small
PoolMax == 2
\* the attempt counter is followed up to this value
AttemptCap == 12
\* attemptReconnection runs followed at the same time
MaxInFlight == 2
\* the probes of one sequence are counted up to this value
ProbeCap == 12

LogConnect == "New database connection established"
LogIdleError == "Unexpected error on idle database client"
LogCheckConfig == "Check your PostgreSQL configuration and make sure the service is running"
LogAttempting == "Attempting database reconnection"
LogSuccessful == "Database reconnection successful"
LogAttemptFailed == "Database reconnection attempt failed"
LogMaxReached == "Max reconnection attempts reached. Database connection lost."
LogUnexpectedResult == "Unexpected database test result"
LogTestFailed == "Database connection test failed"

RcInit ==
  /\ isLocal \in BOOLEAN
  /\ isReconnecting = FALSE
  /\ reconnectAttempts = 0
  /\ rcConnecting = 0
  /\ rcQuerying = 0
  /\ rcTimers = 0
  /\ rcHeld = 0
  /\ consecFails = 0
  /\ seqProbes = 0
  /\ seqConnected = FALSE
  /\ dbLog = "none"

\* attemptReconnection up to its first await: the flag, the counter, pool.connect()
StartAttempt ==
  /\ reconnectAttempts < AttemptCap
  /\ rcConnecting + rcQuerying < MaxInFlight
  /\ isReconnecting' = TRUE
  /\ reconnectAttempts' = reconnectAttempts + 1
  /\ rcConnecting' = rcConnecting + 1
  /\ dbLog' = LogAttempting

\* the catch block of attemptReconnection
ReconnectCatch ==
  /\ consecFails' = IF consecFails < MAX_RECONNECT_ATTEMPTS THEN consecFails + 1 ELSE consecFails
  /\ IF reconnectAttempts < MAX_RECONNECT_ATTEMPTS
       THEN /\ rcTimers' = rcTimers + 1
            /\ dbLog' = LogAttemptFailed
            /\ UNCHANGED isReconnecting
       ELSE /\ isReconnecting' = FALSE
            /\ dbLog' = LogMaxReached
            /\ UNCHANGED rcTimers
  /\ UNCHANGED reconnectAttempts

\* pool.on('connect')
PoolConnect ==
  /\ reconnectAttempts' = 0
  /\ dbLog' = LogConnect
  /\ seqConnected' = TRUE
  /\ UNCHANGED <<appVars, isLocal, isReconnecting, rcConnecting, rcQuerying, rcTimers, rcHeld,
                 consecFails, seqProbes, httpVars, tdcVars, vh>>

\* pool.on('error') without the isReconnecting test
PoolError_Unguarded ==
  /\ IF isLocal
       THEN /\ dbLog' = LogCheckConfig
            /\ UNCHANGED <<isReconnecting, reconnectAttempts, rcConnecting,
                           seqProbes, seqConnected>>
       ELSE /\ StartAttempt
            /\ seqProbes' = 1
            /\ seqConnected' = FALSE
  /\ UNCHANGED <<appVars, isLocal, rcQuerying, rcTimers, rcHeld, consecFails, httpVars, tdcVars, vh>>

\* pool.on('error') without the isLocal test
PoolError_AnyMode ==
  /\ IF ~isReconnecting
       THEN /\ StartAttempt
            /\ seqProbes' = 1
            /\ seqConnected' = FALSE
       ELSE /\ dbLog' = LogIdleError
            /\ UNCHANGED <<isReconnecting, reconnectAttempts, rcConnecting,
                           seqProbes, seqConnected>>
  /\ UNCHANGED <<appVars, isLocal, rcQuerying, rcTimers, rcHeld, consecFails, httpVars, tdcVars, vh>>

\* pool.on('error')
PoolError ==
  /\ IF isLocal
       THEN /\ dbLog' = LogCheckConfig
            /\ UNCHANGED <<isReconnecting, reconnectAttempts, rcConnecting,
                           seqProbes, seqConnected>>
       ELSE IF ~isReconnecting
              THEN /\ StartAttempt
                   /\ seqProbes' = 1
                   /\ seqConnected' = FALSE
              ELSE /\ dbLog' = LogIdleError
                   /\ UNCHANGED <<isReconnecting, reconnectAttempts, rcConnecting,
                                  seqProbes, seqConnected>>
  /\ UNCHANGED <<appVars, isLocal, rcQuerying, rcTimers, rcHeld, consecFails, httpVars, tdcVars, vh>>

\* setTimeout(attemptReconnection, RECONNECT_INTERVAL) fires
TimerFire ==
  /\ rcTimers > 0
  /\ rcTimers' = rcTimers - 1
  /\ StartAttempt
  /\ seqProbes' = IF seqProbes < ProbeCap THEN seqProbes + 1 ELSE seqProbes
  /\ UNCHANGED <<appVars, isLocal, rcQuerying, rcHeld, consecFails, seqConnected,
                 httpVars, tdcVars, vh>>

\* await pool.connect() resolves with a client
ProbeConnected ==
  /\ rcConnecting > 0
  /\ rcHeld + tdcHeld < PoolMax
  /\ rcConnecting' = rcConnecting - 1
  /\ rcQuerying' = rcQuerying + 1
  /\ rcHeld' = rcHeld + 1
  /\ UNCHANGED <<appVars, isLocal, isReconnecting, reconnectAttempts, rcTimers, consecFails,
                 dbLog, httpVars, tdcVars, vh, seqProbes, seqConnected>>

\* await pool.connect() rejects
ProbeConnectFailed ==
  /\ rcConnecting > 0
  /\ rcConnecting' = rcConnecting - 1
  /\ ReconnectCatch
  /\ UNCHANGED <<appVars, isLocal, rcQuerying, rcHeld, httpVars, tdcVars, vh,
                 seqProbes, seqConnected>>

\* the success path without reconnectAttempts = 0
ProbeSucceeded_KeepsCount ==
  /\ rcQuerying > 0
  /\ rcQuerying' = rcQuerying - 1
  /\ rcHeld' = rcHeld - 1
  /\ dbLog' = LogSuccessful
  /\ isReconnecting' = FALSE
  /\ consecFails' = 0
  /\ UNCHANGED <<appVars, isLocal, reconnectAttempts, rcConnecting, rcTimers, httpVars, tdcVars, vh,
                 seqProbes, seqConnected>>

\* await client.query('SELECT 1') resolves: release, then back to idle
ProbeSucceeded ==
  /\ rcQuerying > 0
  /\ rcQuerying' = rcQuerying - 1
  /\ rcHeld' = rcHeld - 1
  /\ dbLog' = LogSuccessful
  /\ isReconnecting' = FALSE
  /\ reconnectAttempts' = 0
  /\ consecFails' = 0
  /\ UNCHANGED <<appVars, isLocal, rcConnecting, rcTimers, httpVars, tdcVars, vh,
                 seqProbes, seqConnected>>

\* await client.query('SELECT 1') rejects: client.release() is skipped
ProbeQueryFailed ==
  /\ rcQuerying > 0
  /\ rcQuerying' = rcQuerying - 1
  /\ ReconnectCatch
  /\ UNCHANGED <<appVars, isLocal, rcConnecting, rcHeld, httpVars, tdcVars, vh,
                 seqProbes, seqConnected>>

NextReconnect ==
  \/ PoolConnect
  \/ PoolError
  \/ TimerFire
  \/ ProbeConnected
  \/ ProbeConnectFailed
  \/ ProbeSucceeded
  \/ ProbeQueryFailed

(***************************************************************************)
(* testDatabaseConnection(retries, delay)                                  *)
(***************************************************************************)
MaxRetries == 3

\* what client.query('SELECT 1 AS ping') can resolve with
QueryResults == {[rows |-> <<>>], [rows |-> <<[ping |-> 1]>>], [rows |-> <<[ping |-> 0]>>]}

\* result?.rows?.[0]?.ping === 1
PingIsOne(result) == Len(result.rows) > 0 /\ result.rows[1].ping = 1

\* outcomes: what each probe of this call ended with (observer)
TdcIdle ==
  [pc |-> "idle", retries |-> 0, attempt |-> 0, probes |-> 0, waits |-> 0,
   outcomes |-> <<>>, result |-> "none"]

TdcInit ==
  /\ tdc = TdcIdle
  /\ tdcHeld = 0

\* the loop condition off by one: attempt <= retries
TdcLoop_OffByOne(t) ==
  IF t.attempt <= t.retries
    THEN [t EXCEPT !.pc = "connecting", !.probes = @ + 1]
    ELSE [t EXCEPT !.pc = "returned", !.result = "false"]

\* while (attempt < retries) { try { await pool.connect() ...  , else return false
TdcLoop(t) ==
  IF t.attempt < t.retries
    THEN [t EXCEPT !.pc = "connecting", !.probes = @ + 1]
    ELSE [t EXCEPT !.pc = "returned", !.result = "false"]

\* the catch block: the last attempt returns false, the others wait `delay`
TdcCatch(t) ==
  IF t.attempt = t.retries - 1
    THEN [t EXCEPT !.pc = "returned", !.result = "false"]
    ELSE [t EXCEPT !.pc = "waiting", !.waits = @ + 1]

\* a caller invokes testDatabaseConnection(retries)
TdcCall ==
  /\ tdc.pc \in {"idle", "returned"}
  /\ vh.pc # "testing"
  /\ \E retries \in 0..MaxRetries :
       tdc' = TdcLoop([TdcIdle EXCEPT !.retries = retries])
  /\ UNCHANGED <<appVars, tdcHeld, dbLog, httpVars, rcVars, vh>>

\* await pool.connect() resolves with a client
TdcConnected ==
  /\ tdc.pc = "connecting"
  /\ rcHeld + tdcHeld < PoolMax
  /\ tdc' = [tdc EXCEPT !.pc = "querying"]
  /\ tdcHeld' = tdcHeld + 1
  /\ UNCHANGED <<appVars, dbLog, httpVars, rcVars, vh>>

\* await pool.connect() rejects
TdcConnectFailed ==
  /\ tdc.pc = "connecting"
  /\ tdc' = TdcCatch([tdc EXCEPT !.outcomes = Append(@, "connect rejected")])
  /\ dbLog' = LogTestFailed
  /\ UNCHANGED <<appVars, tdcHeld, httpVars, rcVars, vh>>

\* the query resolves: release, return true on ping 1, else the next iteration
TdcQueryReturned ==
  /\ tdc.pc = "querying"
  /\ tdcHeld' = tdcHeld - 1
  /\ \E result \in QueryResults :
       IF PingIsOne(result)
         THEN /\ tdc' = [tdc EXCEPT !.pc = "returned", !.result = "true",
                                    !.outcomes = Append(@, "ping 1")]
              /\ UNCHANGED dbLog
         ELSE /\ tdc' = TdcLoop([tdc EXCEPT !.attempt = @ + 1,
                                            !.outcomes = Append(@, "ping not 1")])
              /\ dbLog' = LogUnexpectedResult
  /\ UNCHANGED <<appVars, httpVars, rcVars, vh>>

\* the query rejects: client.release() is skipped
TdcQueryFailed ==
  /\ tdc.pc = "querying"
  /\ tdc' = TdcCatch([tdc EXCEPT !.outcomes = Append(@, "query rejected")])
  /\ dbLog' = LogTestFailed
  /\ UNCHANGED <<appVars, tdcHeld, httpVars, rcVars, vh>>

\* the delay timer resolves: attempt++ and the loop condition again
TdcWaitDone ==
  /\ tdc.pc = "waiting"
  /\ tdc' = TdcLoop([tdc EXCEPT !.attempt = @ + 1])
  /\ UNCHANGED <<appVars, tdcHeld, dbLog, httpVars, rcVars, vh>>

NextTdc ==
  \/ TdcCall
  \/ TdcConnected
  \/ TdcConnectFailed
  \/ TdcQueryReturned
  \/ TdcQueryFailed
  \/ TdcWaitDone

(***************************************************************************)
(* verifyDatabaseHealth() and GET /api/health                              *)
(***************************************************************************)
\* testDatabaseConnection(retries = 3, delay = 1000)
DefaultRetries == 3

\* const tables = [...]
RequiredTables ==
  <<"users", "wardrobe_items", "outfits", "inspirations",
    "weather_preferences", "mood_preferences">>

\* the tables the catalog may list in schema public
TableNames == {RequiredTables[i] : i \in DOMAIN RequiredTables} \cup {"session"}

\* details: null
Null == [null |-> TRUE]

\* getPoolStatus()
getPoolStatus ==
  [totalCount |-> rcHeld + tdcHeld, idleCount |-> 0, waitingCount |-> 0]

\* tables.filter(table => !existingTables.includes(table))
MissingTables(existingTables) ==
  SelectSeq(RequiredTables, LAMBDA t : t \notin existingTables)

ReportConnectionFailed ==
  [healthy |-> FALSE, message |-> "Database connection failed", details |-> Null]

\* a catch block that drops the error text
ReportError_NoText(errorMessage) ==
  [healthy |-> FALSE, message |-> "Database health check failed", details |-> Null]

\* the catch block of verifyDatabaseHealth
ReportError(errorMessage) ==
  [healthy |-> FALSE, message |-> "Database health check failed",
   details |-> [error |-> errorMessage]]

\* the schema check skipped: every catalog result counts as complete
SchemaReport_NoCheck(existingTables, poolStatus) ==
  [healthy |-> TRUE, message |-> "Database connection and schema verified",
   details |-> [tables |-> existingTables, poolStatus |-> poolStatus]]

\* the report once existingTables has been read from the catalog result
SchemaReport(existingTables, poolStatus) ==
  IF Len(MissingTables(existingTables)) > 0
    THEN [healthy |-> FALSE, message |-> "Database schema incomplete",
          details |-> [missingTables |-> MissingTables(existingTables)]]
    ELSE [healthy |-> TRUE, message |-> "Database connection and schema verified",
          details |-> [tables |-> existingTables, poolStatus |-> poolStatus]]

\* the connectivity test ignored: the schema check follows in any case
AfterTest_NoShortCircuit(v, testResult) ==
  [v EXCEPT !.pc = "catalog", !.catalogQueries = @ + 1]

\* if (!await testDatabaseConnection()) return ...; else db.execute(catalog query)
AfterTest(v, testResult) ==
  IF testResult # "true"
    THEN [v EXCEPT !.pc = "returned", !.report = ReportConnectionFailed]
    ELSE [v EXCEPT !.pc = "catalog", !.catalogQueries = @ + 1]

\* observers: failed is the step of this call that threw, thrown its error
\* message, existing the tables the catalog listed
VhIdle ==
  [pc |-> "idle", catalogQueries |-> 0, failed |-> "none", thrown |-> Undefined,
   existing |-> {}, report |-> ReportConnectionFailed]

\* threw (observer): the route's own try block threw
HrIdle == [pc |-> "idle", threw |-> FALSE, responses |-> 0, response |-> NoResponse]

HealthInit ==
  /\ vh = VhIdle
  /\ hr = HrIdle

\* GET /api/health arrives: verifyDatabaseHealth() starts testDatabaseConnection()
HrArrive ==
  /\ hr.pc \in {"idle", "done"}
  /\ tdc.pc \in {"idle", "returned"}
  /\ hr' = [HrIdle EXCEPT !.pc = "waiting"]
  /\ vh' = [VhIdle EXCEPT !.pc = "testing"]
  /\ tdc' = TdcLoop([TdcIdle EXCEPT !.retries = DefaultRetries])
  /\ UNCHANGED <<appVars, authVars, wr, rcVars, tdcHeld, dbLog>>

\* testDatabaseConnection() has returned to verifyDatabaseHealth
VhTestDone ==
  /\ vh.pc = "testing"
  /\ tdc.pc = "returned"
  /\ vh' = AfterTest(vh, tdc.result)
  /\ UNCHANGED <<appVars, httpVars, rcVars, tdcVars, dbLog>>

\* await db.execute(...) rejects
VhCatalogRejected ==
  /\ vh.pc = "catalog"
  /\ vh' = [vh EXCEPT !.pc = "returned", !.failed = "catalog query",
                      !.thrown = "catalog query failed",
                      !.report = ReportError("catalog query failed")]
  /\ UNCHANGED <<appVars, httpVars, rcVars, tdcVars, dbLog>>

\* await db.execute(...) resolves: an array of rows, an object with rows, or
\* something with neither (reading .rows.map then throws); then the schema
\* check and the pool snapshot
VhCatalogReturned ==
  /\ vh.pc = "catalog"
  /\ \E shape \in {"array", "rows", "neither"}, existing \in SUBSET TableNames,
        snapshotThrows \in BOOLEAN :
       vh' =
         CASE shape = "neither" ->
                [vh EXCEPT !.pc = "returned", !.failed = "reading the result",
                           !.thrown = "Cannot read properties of undefined",
                           !.report = ReportError("Cannot read properties of undefined")]
           [] shape # "neither" /\ Len(MissingTables(existing)) = 0 /\ snapshotThrows ->
                [vh EXCEPT !.pc = "returned", !.failed = "pool status",
                           !.thrown = "pool status failed",
                           !.existing = existing,
                           !.report = ReportError("pool status failed")]
           [] OTHER ->
                [vh EXCEPT !.pc = "returned", !.existing = existing,
                           !.report = SchemaReport(existing, getPoolStatus)]
  /\ UNCHANGED <<appVars, httpVars, rcVars, tdcVars, dbLog>>

\* the body the route sends for a report
HealthBody(dbHealth, poolStatus) ==
  IF dbHealth.healthy
    THEN [status |-> "OK",
          database |-> [status |-> "connected", pool |-> poolStatus,
                        tables |-> IF "tables" \in DOMAIN dbHealth.details
                                     THEN dbHealth.details.tables ELSE {}]]
    ELSE [status |-> "ERROR",
          database |-> [status |-> "disconnected", message |-> dbHealth.message,
                        details |-> dbHealth.details]]

\* a route answering 200 whatever the report says
HealthStatus_Always200(dbHealth) == 200

\* res.status(200) when dbHealth.healthy, else res.status(500)
HealthStatus(dbHealth) == IF dbHealth.healthy THEN 200 ELSE 500

\* the route continues after await verifyDatabaseHealth(): the pool and memory
\* snapshots may throw into the route's own catch
HrRespond ==
  /\ hr.pc = "waiting"
  /\ vh.pc = "returned"
  /\ \E throws \in BOOLEAN :
       hr' = [hr EXCEPT
                !.pc = "done",
                !.threw = throws,
                !.responses = @ + 1,
                !.response =
                  IF throws
                    THEN [status |-> 500,
                          body |-> [status |-> "ERROR",
                                    message |-> "Failed to check system health",
                                    error |-> "snapshot failed"]]
                    ELSE [status |-> HealthStatus(vh.report),
                          body |-> HealthBody(vh.report, getPoolStatus)]]
  /\ UNCHANGED <<appVars, authVars, wr, dbVars>>

TdcSteps ==
  \/ TdcConnected
  \/ TdcConnectFailed
  \/ TdcQueryReturned
  \/ TdcQueryFailed
  \/ TdcWaitDone

NextHealth ==
  \/ HrArrive
  \/ VhTestDone
  \/ VhCatalogRejected
  \/ VhCatalogReturned
  \/ HrRespond
  \/ TdcSteps

(***************************************************************************)
(* GET, PATCH and DELETE /:id of wardrobe items and outfits                *)
(***************************************************************************)
\* who sends the two requests: nobody logged in, or a user or admin session
Requesters ==
  {[isAuthenticated |-> "false", user |-> NoUser]}
    \cup [isAuthenticated : {"true"},
          user : [present : {TRUE}, id : UserIds, role : {"user", "admin"}]]

\* fails: the storage call of this request that throws
ResourceRequests ==
  [method : {"GET", "PATCH", "DELETE"}, from : Requesters,
   fails : {"none", "read", "write"}]

\* the row with the id of the requests: absent, or owned by some user
Absent == [present |-> FALSE, userId |-> 0, data |-> 0]
Stores == {Absent} \cup [present : {TRUE}, userId : UserIds, data : {0}]

Slots == {1, 2}

\* storage.getWardrobeItem(id) / storage.getOutfit(id): the row, or undefined
StorageGet(store) == store

\* storage.updateWardrobeItem(id, body) / storage.updateOutfit(id, body):
\* the updated row, or undefined when there is no row with this id
StorageUpdate(store, data) ==
  IF store.present
    THEN [store |-> [store EXCEPT !.data = data], result |-> [store EXCEPT !.data = data]]
    ELSE [store |-> store, result |-> Absent]

\* storage.deleteWardrobeItem(id) / storage.deleteOutfit(id)
StorageDelete(store) == Absent

\* what res.json(row) sends: nothing for undefined
RowBody(row) == IF row.present THEN [userId |-> row.userId, data |-> row.data] ELSE [empty |-> TRUE]

\* the handler where an admin may touch any row
AfterRead_AdminBypass(q, item) ==
  CASE q.fails = "read" ->
         [next |-> "done", status |-> 500, body |-> [message |-> "Failed"]]
    [] ~item.present ->
         [next |-> "done", status |-> 404, body |-> [message |-> "Not found"]]
    [] item.userId # q.from.user.id /\ q.from.user.role # "admin" ->
         [next |-> "done", status |-> 403, body |-> [message |-> "Forbidden"]]
    [] q.method = "GET" ->
         [next |-> "done", status |-> 200, body |-> RowBody(item)]
    [] OTHER ->
         [next |-> "writing", status |-> 0, body |-> [none |-> TRUE]]

\* the handler from the return of its storage read to its next await or its
\* response: catch, 404, 403, the row, or the update/delete call
AfterRead(q, item) ==
  CASE q.fails = "read" ->
         [next |-> "done", status |-> 500, body |-> [message |-> "Failed"]]
    [] ~item.present ->
         [next |-> "done", status |-> 404, body |-> [message |-> "Not found"]]
    [] item.userId # q.from.user.id ->
         [next |-> "done", status |-> 403, body |-> [message |-> "Forbidden"]]
    [] q.method = "GET" ->
         [next |-> "done", status |-> 200, body |-> RowBody(item)]
    [] OTHER ->
         [next |-> "writing", status |-> 0, body |-> [none |-> TRUE]]

\* the update or delete call executes and the handler answers
AfterWrite(q, store, data) ==
  CASE q.fails = "write" ->
         [store |-> store, status |-> 500, body |-> [message |-> "Failed"]]
    [] q.method = "PATCH" ->
         [store |-> StorageUpdate(store, data).store, status |-> 200,
          body |-> RowBody(StorageUpdate(store, data).result)]
    [] OTHER ->
         [store |-> StorageDelete(store), status |-> 204, body |-> [empty |-> TRUE]]

\* one request served alone, from router.use(requireAuth) to its response
Serve(q, store, data) ==
  IF requireAuth(q.from).kind # "none"
    THEN [store |-> store, status |-> 401,
          body |-> errorHandler(requireAuth(q.from), FALSE).body]
    ELSE IF AfterRead(q, StorageGet(store)).next = "done"
           THEN [store |-> store, status |-> AfterRead(q, StorageGet(store)).status,
                 body |-> AfterRead(q, StorageGet(store)).body]
           ELSE AfterWrite(q, store, data)

\* observers: reads and writes count the storage calls of the request, item
\* is the row its read returned, presentAtWrite whether the row was there
\* when its update or delete executed
SlotIdle ==
  [pc |-> "idle", q |-> [method |-> "GET", from |-> [isAuthenticated |-> "false", user |-> NoUser],
                         fails |-> "none"],
   reads |-> 0, writes |-> 0, item |-> Absent, presentAtWrite |-> FALSE,
   status |-> 0, body |-> [none |-> TRUE]]

RsInit == rs = [store |-> Absent, start |-> Absent, slot |-> [i \in Slots |-> SlotIdle]]

\* two requests for the same id arrive together; store is the row as the
\* requests before them left it
RsArrive ==
  /\ \A i \in Slots : rs.slot[i].pc = "idle"
  /\ \E q1 \in ResourceRequests, q2 \in ResourceRequests, store \in Stores :
       rs' = [rs EXCEPT !.store = store,
                        !.start = store,
                        !.slot = [i \in Slots |->
                                    [SlotIdle EXCEPT !.pc = "gate",
                                                     !.q = IF i = 1 THEN q1 ELSE q2]]]
  /\ UNCHANGED <<httpVars, dbVars, sh, cal>>

\* router.use(requireAuth), then errorHandler or the handler's storage read
RsGate(i) ==
  /\ rs.slot[i].pc = "gate"
  /\ rs' = IF requireAuth(rs.slot[i].q.from).kind # "none"
             THEN [rs EXCEPT !.slot[i].pc = "done",
                             !.slot[i].status = 401,
                             !.slot[i].body =
                               errorHandler(requireAuth(rs.slot[i].q.from), FALSE).body]
             ELSE [rs EXCEPT !.slot[i].pc = "reading"]
  /\ UNCHANGED <<httpVars, dbVars, sh, cal>>

\* await storage.get...(id) returns or throws; the handler runs on to its answer
\* or to its update/delete call
RsRead(i) ==
  /\ rs.slot[i].pc = "reading"
  /\ LET q == rs.slot[i].q
         r == AfterRead(q, StorageGet(rs.store))
     IN rs' = [rs EXCEPT !.slot[i].pc = r.next,
                         !.slot[i].reads = @ + 1,
                         !.slot[i].item = IF q.fails = "read" THEN Absent
                                                              ELSE StorageGet(rs.store),
                         !.slot[i].writes = IF r.next = "writing" THEN @ + 1 ELSE @,
                         !.slot[i].status = r.status,
                         !.slot[i].body = r.body]
  /\ UNCHANGED <<httpVars, dbVars, sh, cal>>

\* await storage.update...(id, body) / storage.delete...(id) executes and the
\* handler answers
RsWrite(i) ==
  /\ rs.slot[i].pc = "writing"
  /\ LET w == AfterWrite(rs.slot[i].q, rs.store, i)
     IN rs' = [rs EXCEPT !.store = w.store,
                         !.slot[i].pc = "done",
                         !.slot[i].presentAtWrite = rs.store.present,
                         !.slot[i].status = w.status,
                         !.slot[i].body = w.body]
  /\ UNCHANGED <<httpVars, dbVars, sh, cal>>

NextResources ==
  \/ RsArrive
  \/ \E i \in Slots : RsGate(i) \/ RsRead(i) \/ RsWrite(i)

(***************************************************************************)
(* Outfit sharing: POST /:id/share and GET /shared/:shareId                *)
(***************************************************************************)
\* strings are sequences of character codes: '0'..'9' are 48..57, '-' is 45
Hyphen == 45
Digit0 == 48

\* base64 text is a sequence of alphabet indices 0..63, with Pad for '='
Pad == 64

\* `${n}` for a non-negative integer
RECURSIVE ToDigits(_)
ToDigits(n) ==
  IF n < 10 THEN <<Digit0 + n>> ELSE ToDigits(n \div 10) \o <<Digit0 + (n % 10)>>

\* Buffer.from(text).toString('base64')
RECURSIVE Base64Encode(_)
Base64Encode(b) ==
  CASE Len(b) = 0 -> <<>>
    [] Len(b) = 1 -> <<b[1] \div 4, (b[1] % 4) * 16, Pad, Pad>>
    [] Len(b) = 2 ->
         <<b[1] \div 4, (b[1] % 4) * 16 + b[2] \div 16, (b[2] % 16) * 4, Pad>>
    [] OTHER ->
         <<b[1] \div 4, (b[1] % 4) * 16 + b[2] \div 16,
           (b[2] % 16) * 4 + b[3] \div 64, b[3] % 64>>
           \o Base64Encode(SubSeq(b, 4, Len(b)))

\* the text before the first '='
RECURSIVE UpToPad(_)
UpToPad(t) ==
  IF Len(t) = 0 \/ t[1] = Pad THEN <<>> ELSE <<t[1]>> \o UpToPad(Tail(t))

\* the bytes of unpadded base64 text; leftover bits are dropped
RECURSIVE DecodeSextets(_)
DecodeSextets(t) ==
  CASE Len(t) <= 1 -> <<>>
    [] Len(t) = 2 -> <<t[1] * 4 + t[2] \div 16>>
    [] Len(t) = 3 -> <<t[1] * 4 + t[2] \div 16, (t[2] % 16) * 16 + t[3] \div 4>>
    [] OTHER ->
         <<t[1] * 4 + t[2] \div 16, (t[2] % 16) * 16 + t[3] \div 4,
           (t[3] % 4) * 64 + t[4]>>
           \o DecodeSextets(SubSeq(t, 5, Len(t)))

\* Buffer.from(shareId, 'base64').toString()
Base64Decode(t) == DecodeSextets(UpToPad(t))

\* decoded.split('-')[0]
RECURSIVE FirstField(_)
FirstField(b) ==
  IF Len(b) = 0 \/ b[1] = Hyphen THEN <<>> ELSE <<b[1]>> \o FirstField(Tail(b))

\* decoded.split('-') last element
RECURSIVE LastField(_)
LastField(b) ==
  IF \A i \in DOMAIN b : b[i] # Hyphen
    THEN b
    ELSE LastField(Tail(b))

\* parseInt gives NaN for text that does not start with a digit; NaN is
\* written as a number that no id equals
NaN == 0 - 1

\* the value of the leading digits of b after acc
RECURSIVE LeadingDigits(_, _)
LeadingDigits(b, acc) ==
  IF Len(b) = 0 \/ b[1] \notin Digit0..(Digit0 + 9)
    THEN acc
    ELSE LeadingDigits(Tail(b), acc * 10 + (b[1] - Digit0))

\* parseInt(text)
ParseInt(b) ==
  IF Len(b) = 0 \/ b[1] \notin Digit0..(Digit0 + 9) THEN NaN ELSE LeadingDigits(b, 0)

\* Buffer.from(`${outfit.id}-${Date.now()}`).toString('base64')
ShareId(id, now) == Base64Encode(ToDigits(id) \o <<Hyphen>> \o ToDigits(now))

\* a decoder reading the last field of the token
OutfitIdOf_LastField(shareId) == ParseInt(LastField(Base64Decode(shareId)))

\* parseInt(Buffer.from(shareId, 'base64').toString().split('-')[0])
OutfitIdOf(shareId) == ParseInt(FirstField(Base64Decode(shareId)))

\* the outfits in the store: id and owner
SharedStore == {[id |-> 1, userId |-> 1], [id |-> 2, userId |-> 2],
                [id |-> 12, userId |-> 1], [id |-> 305, userId |-> 2]}

\* storage.getOutfit(id): the outfit, or undefined
GetOutfit(id) == {o \in SharedStore : id # NaN /\ o.id = id}

\* the ids a request may name, one of them of no outfit
RequestedIds == {o.id : o \in SharedStore} \cup {3}

\* values of Date.now()
Timestamps == {5, 42, 1234}

\* the share ids anyone can send to the public endpoint
PublicShareIds ==
  {ShareId(id, now) : id \in RequestedIds, now \in Timestamps}
    \cup {Base64Encode(ToDigits(id)) : id \in RequestedIds}
    \cup {Base64Encode(<<Hyphen>>), <<>>}

NoShareId == <<Pad>>

ShIdle ==
  [route |-> "none", from |-> [isAuthenticated |-> "false", user |-> NoUser],
   id |-> 0, shareId |-> NoShareId, status |-> 0, outfitId |-> 0]

\* shared (observer): the outfits for which POST /:id/share has made a link
ShInit == sh = [shared |-> {}, last |-> ShIdle]

\* POST /:id/share behind requireAuth: 401, 404, 403, or the link
PostShare ==
  /\ \E from \in Requesters, id \in RequestedIds, now \in Timestamps :
       LET found == GetOutfit(id)
           outfit == CHOOSE o \in found : TRUE
           status == CASE requireAuth(from).kind # "none" -> 401
                       [] found = {} -> 404
                       [] outfit.userId # from.user.id -> 403
                       [] OTHER -> 200
       IN sh' = [shared |-> IF status = 200 THEN sh.shared \cup {id} ELSE sh.shared,
                 last |-> [route |-> "share", from |-> from, id |-> id,
                           shareId |-> IF status = 200 THEN ShareId(id, now) ELSE NoShareId,
                           status |-> status, outfitId |-> 0]]
  /\ UNCHANGED <<httpVars, dbVars, rs, cal>>

\* GET /shared/:shareId, without authentication: 404 or the outfit
GetShared ==
  /\ \E shareId \in PublicShareIds \cup {sh.last.shareId} :
       LET outfitId == OutfitIdOf(shareId)
           found == GetOutfit(outfitId)
       IN sh' = [sh EXCEPT !.last =
                   [route |-> "shared", from |-> ShIdle.from, id |-> 0,
                    shareId |-> shareId,
                    status |-> IF found = {} THEN 404 ELSE 200,
                    outfitId |-> IF found = {} THEN 0 ELSE outfitId]]
  /\ UNCHANGED <<httpVars, dbVars, rs, cal>>

NextShare == PostShare \/ GetShared

(***************************************************************************)
(* GET /api/calendar-outfits                                               *)
(***************************************************************************)
\* 1000 * 60 * 60 * 24
DayMs == 86400000

\* the latest day a query names, and the most outfits a user has
MaxDay == 3
MaxOutfits == 3

\* a query parameter that is not given
NoDate == 0 - 1

\* new Date(text).getTime() of the dates a query names: midnight or noon (UTC)
Times == {d * DayMs + h : d \in 0..MaxDay, h \in {0, DayMs \div 2}}

\* Math.ceil(a / b) for a >= 0
Ceil(a, b) == (a + b - 1) \div b

\* Math.ceil((end.getTime() - start.getTime()) / (1000 * 60 * 60 * 24))
DayCount(start, end) == Ceil(end - start, DayMs)

\* date.toISOString().split('T')[0], as the number of the UTC day
IsoDay(t) == t \div DayMs

\* index % Math.ceil(...): NaN when the count is 0
PlannedOffset(index, start, end) ==
  IF DayCount(start, end) = 0
    THEN [valid |-> FALSE, days |-> 0]
    ELSE [valid |-> TRUE, days |-> index % DayCount(start, end)]

\* outfits.map(...): the planned day of each outfit, index from 0; a NaN
\* offset makes an invalid Date, on which toISOString throws
CalendarOutfits(n, start, end) ==
  IF \E i \in 1..n : ~PlannedOffset(i - 1, start, end).valid
    THEN [status |-> 500, planned |-> <<>>]
    ELSE [status |-> 200,
          planned |-> [i \in 1..n |->
                         IsoDay(start + PlannedOffset(i - 1, start, end).days * DayMs)]]

CalIdle ==
  [pc |-> "idle", startDate |-> NoDate, endDate |-> NoDate, outfits |-> 0,
   status |-> 0, planned |-> <<>>]

CalInit == cal = CalIdle

\* an authenticated request arrives with its query
CalArrive ==
  /\ cal.pc \in {"idle", "done"}
  /\ \E s \in Times \cup {NoDate}, e \in Times \cup {NoDate} :
       /\ (s # NoDate /\ e # NoDate) => s <= e
       /\ cal' = [CalIdle EXCEPT !.pc = "handler", !.startDate = s, !.endDate = e]
  /\ UNCHANGED <<httpVars, dbVars, rs, sh>>

\* the handler: 400 without both dates, else the user's outfits with planned dates
CalRespond ==
  /\ cal.pc = "handler"
  /\ \E n \in 0..MaxOutfits :
       cal' = IF cal.startDate = NoDate \/ cal.endDate = NoDate
                THEN [cal EXCEPT !.pc = "done", !.status = 400]
                ELSE [cal EXCEPT
                        !.pc = "done",
                        !.outfits = n,
                        !.status = CalendarOutfits(n, cal.startDate, cal.endDate).status,
                        !.planned = CalendarOutfits(n, cal.startDate, cal.endDate).planned]
  /\ UNCHANGED <<httpVars, dbVars, rs, sh>>

NextCalendar == CalArrive \/ CalRespond

(***************************************************************************)
(* Specifications                                                          *)
(***************************************************************************)
Init ==
  AuthInit /\ WrInit /\ RcInit /\ TdcInit /\ HealthInit /\ RsInit /\ ShInit /\ CalInit

NextPool == NextReconnect \/ NextTdc

Next ==
  NextAuth \/ NextWrapped \/ NextPool \/ NextHealth \/ NextResources \/ NextShare
    \/ NextCalendar

\* requests through the gates and the error pipeline
SpecAuth == Init /\ [][NextAuth]_vars

\* the reconnection state machine under pool events
SpecReconnect == Init /\ [][NextReconnect]_vars

\* calls of testDatabaseConnection
SpecTdc == Init /\ [][NextTdc]_vars

\* reconnection and connection tests sharing the one pool
SpecPool == Init /\ [][NextPool]_vars

\* the reconnection manager when every started probe completes and every
\* scheduled retry timer fires
SpecReconnectFair ==
  /\ Init
  /\ [][NextReconnect]_vars
  /\ WF_vars(TimerFire)
  /\ WF_vars(ProbeConnected \/ ProbeConnectFailed)
  /\ WF_vars(ProbeSucceeded \/ ProbeQueryFailed)

\* requests on routes wrapped by asyncHandler, answered by errorHandler
SpecErrors == Init /\ [][NextWrapped]_vars

\* GET /api/health with verifyDatabaseHealth and its connection test
SpecHealth == Init /\ [][NextHealth]_vars

\* two concurrent requests on /:id of a wardrobe item or outfit
SpecResources == Init /\ [][NextResources]_vars

\* outfit sharing
SpecShare == Init /\ [][NextShare]_vars

\* GET /api/calendar-outfits
SpecCalendar == Init /\ [][NextCalendar]_vars

Spec == Init /\ [][Next]_vars

(***************************************************************************)
(* Properties                                                              *)
(***************************************************************************)
\* the gate has run for the current request
GateDone == reqPc \in {"handler", "error", "done"}

\* the request carries an identity: isAuthenticated() is true and req.user is set
HasIdentity == req.isAuthenticated = "true" /\ req.user.present

Passed == nextCalls = 1 /\ nextArg.kind = "none"

Denied(status) ==
  /\ nextCalls = 1
  /\ nextArg.kind = "ApiError"
  /\ nextArg.statusCode = status
  /\ handlerCalls = 0
  /\ storageCalls = 0

\* C1: a request without an authenticated identity on a route gated by
\* requireAuth gets ApiError 401 handed to next, never reaches the handler
\* (no storage call), and is answered 401 with the body
\* {"error":{"message":"You must be logged in to access this resource",
\* "code":"ERROR_401"}}.
C1_Unauthenticated401 ==
  (gate.kind = "requireAuth" /\ req.isAuthenticated \in {"absent", "false"} /\ GateDone) =>
    /\ Denied(401)
    /\ reqPc # "handler"
    /\ reqPc = "done" =>
         response =
           [status |-> 401,
            body |-> [error |->
                        [message |-> "You must be logged in to access this resource",
                         code |-> "ERROR_401"]]]

C1_Witness ==
  /\ gate.kind = "requireAuth"
  /\ req.isAuthenticated = "false"
  /\ reqPc = "done"
  /\ response.status = 401

\* C2: for an authenticated identity and the owner id the extractor returned,
\* requireSelfOrAdmin signals ApiError 403 when the ids differ and the role
\* is not admin, and passes when the ids are equal or the role is admin.
C2_SelfOrAdmin ==
  (gate.kind = "requireSelfOrAdmin" /\ HasIdentity /\ GateDone) =>
    IF req.user.id # gate.owner /\ req.user.role # "admin"
      THEN Denied(403)
      ELSE Passed

C2_Witness ==
  /\ gate.kind = "requireSelfOrAdmin"
  /\ HasIdentity
  /\ req.user.role = "admin"
  /\ req.user.id # gate.owner
  /\ reqPc = "handler"
  /\ Passed

\* the roles requireRole was given
AllowedRoles == IF gate.role.isArray THEN gate.role.roles ELSE {gate.role.role}

\* C3 as claimed: every role value outside {user, admin} (missing, empty or
\* an unknown string) counts as user; requireRole passes exactly when that
\* effective role is in the allowed set and otherwise signals 403.
C3_UnknownRoleIsUser ==
  (gate.kind = "requireRole" /\ HasIdentity /\ GateDone) =>
    LET effective == IF req.user.role \in {"user", "admin"} THEN req.user.role ELSE "user"
    IN IF effective \in AllowedRoles THEN Passed ELSE Denied(403)

\* C3 amended: only a missing or empty role counts as user; any other role
\* string is compared as it is, so requireRole passes exactly when that
\* role is in the allowed set and otherwise signals 403; an unknown role is
\* denied by requireRole(user).
C3_MissingRoleIsUser ==
  (gate.kind = "requireRole" /\ HasIdentity /\ GateDone) =>
    LET effective == IF req.user.role \in {Undefined, ""} THEN "user" ELSE req.user.role
    IN IF effective \in AllowedRoles THEN Passed ELSE Denied(403)

C3_Witness ==
  /\ gate.kind = "requireRole"
  /\ AllowedRoles = {"user"}
  /\ HasIdentity
  /\ req.user.role = "moderator"
  /\ reqPc = "done"
  /\ response.status = 403

\* reconnection probes in progress plus pending retry timers
InFlight == rcConnecting + rcQuerying + rcTimers

\* C4: under every interleaving of pool error events, connect events, probe
\* completions and timer firings, the reconnection probes in progress plus
\* the pending retry timers never exceed one.
C4_OneSequenceInFlight == InFlight <= 1

C4_Witness ==
  /\ rcTimers = 1
  /\ isReconnecting
  /\ dbLog = LogIdleError
  /\ reconnectAttempts >= 2

\* C5: in every reachable state reconnectAttempts is within
\* 0..MAX_RECONNECT_ATTEMPTS.
C5_AttemptsInRange == reconnectAttempts \in 0..MAX_RECONNECT_ATTEMPTS

\* C6: after MAX_RECONNECT_ATTEMPTS consecutive probe failures with the
\* counter at the maximum the manager has given up for good: no retry timer
\* is pending, the counter stays at the maximum, and no reconnection probe
\* is started again, whatever pool error events follow.
C6_GaveUpIsTerminal ==
  (consecFails >= MAX_RECONNECT_ATTEMPTS /\ reconnectAttempts >= MAX_RECONNECT_ATTEMPTS) =>
    /\ rcTimers = 0
    /\ rcConnecting = 0
    /\ rcQuerying = 0
    /\ reconnectAttempts = MAX_RECONNECT_ATTEMPTS

\* C7: the step in which a reconnection probe succeeds leaves the manager
\* idle: isReconnecting false, the counter 0, no retry timer pending.
C7_SuccessReturnsToIdle ==
  [][(rcQuerying' = rcQuerying - 1 /\ dbLog' = LogSuccessful) =>
       (~isReconnecting' /\ reconnectAttempts' = 0 /\ rcTimers' = 0 /\ InFlight' = 0)]_vars

\* a probe succeeded after an earlier attempt whose query had failed
C7_Witness ==
  /\ dbLog = LogSuccessful
  /\ consecFails = 0
  /\ ~isReconnecting
  /\ reconnectAttempts = 0
  /\ rcHeld > 0

\* C8 as claimed: in every deployment mode, a pool error event arriving
\* while no reconnection sequence is in flight enters one.
C8_ErrorEntersReconnection ==
  [][(PoolError /\ InFlight = 0) => (isReconnecting' /\ rcConnecting' = 1)]_vars

\* C8 amended: in managed/hosted mode (REPL_ID set) a pool error event
\* arriving while no reconnection sequence is in flight enters one; in
\* local mode the event is only logged and none is ever entered.
C8_ErrorEntersReconnectionWhenHosted ==
  [][(PoolError /\ InFlight = 0) =>
       IF isLocal
         THEN ~isReconnecting' /\ InFlight' = 0 /\ reconnectAttempts' = reconnectAttempts
         ELSE isReconnecting' /\ rcConnecting' = 1]_vars

C8_Witness ==
  /\ ~isLocal
  /\ isReconnecting
  /\ rcConnecting = 1
  /\ reconnectAttempts = 1
  /\ consecFails = 0
  /\ dbLog = LogAttempting

\* C9: every client a probe acquired is released before the attempt ends:
\* whenever no probe is in progress, no client is held by a probe.
C9_ProbeClientsReleased ==
  (rcConnecting + rcQuerying = 0 /\ tdc.pc \notin {"connecting", "querying"}) =>
    rcHeld + tdcHeld = 0

Range(f) == {f[i] : i \in DOMAIN f}

\* C10: testDatabaseConnection(retries) makes at most `retries` probes,
\* returns true at its first successful probe and probes no further, and
\* returns false exactly when none of its probes succeeded (with retries = 0
\* after no probe at all).
C10_TdcBoundedAndExact ==
  /\ tdc.probes <= tdc.retries
  /\ Len(tdc.outcomes) <= tdc.probes
  /\ \A i \in DOMAIN tdc.outcomes :
       tdc.outcomes[i] = "ping 1" =>
         i = Len(tdc.outcomes) /\ tdc.pc = "returned" /\ tdc.result = "true"
  /\ tdc.pc = "returned" =>
       /\ Len(tdc.outcomes) = tdc.probes
       /\ tdc.result = (IF "ping 1" \in Range(tdc.outcomes) THEN "true" ELSE "false")
  /\ (tdc.pc # "idle" /\ tdc.retries = 0) =>
       tdc.pc = "returned" /\ tdc.probes = 0 /\ tdc.result = "false"

C10_Witness ==
  /\ tdc.pc = "returned"
  /\ tdc.result = "true"
  /\ tdc.retries = MaxRetries
  /\ tdc.outcomes = <<"query rejected", "ping not 1", "ping 1">>

\* C11: in testDatabaseConnection a wait of `delay` lies between every two
\* consecutive probes, whatever made the earlier one unsuccessful: whenever a
\* probe is under way, the waits made so far are one fewer than the probes
\* started.
C11_WaitBetweenProbes ==
  tdc.pc \in {"connecting", "querying"} => tdc.waits = tdc.probes - 1

\* the connectivity test of the current health check has failed
ConnectivityFailed ==
  vh.pc = "returned" /\ tdc.pc = "returned" /\ tdc.result = "false"

\* C12: when the connectivity test fails, verifyDatabaseHealth returns
\* healthy:false without having issued the catalog query, and its report has
\* no schema details (neither tables nor missingTables).
C12_ShortCircuit ==
  ConnectivityFailed =>
    /\ vh.report.healthy = FALSE
    /\ vh.catalogQueries = 0
    /\ DOMAIN vh.report.details \cap {"tables", "missingTables"} = {}

C12_Witness ==
  /\ ConnectivityFailed
  /\ tdc.probes = DefaultRetries
  /\ hr.pc = "waiting"

\* the catalog listed its tables and no step of the health check threw
SchemaChecked ==
  vh.pc = "returned" /\ tdc.result = "true" /\ vh.catalogQueries = 1 /\ vh.failed = "none"

Required == Range(RequiredTables)

\* C13: for a reachable store listing the tables E, verifyDatabaseHealth
\* returns healthy:true exactly when the six required tables are all in E;
\* when healthy details.tables is E, when not healthy details.missingTables
\* holds exactly the required tables that are not in E, each once.
C13_SchemaVerdict ==
  SchemaChecked =>
    /\ vh.report.healthy <=> (Required \subseteq vh.existing)
    /\ vh.report.healthy =>
         vh.report.details.tables = vh.existing /\ Required \subseteq vh.report.details.tables
    /\ ~vh.report.healthy =>
         /\ DOMAIN vh.report.details = {"missingTables"}
         /\ Range(vh.report.details.missingTables) = Required \ vh.existing
         /\ Len(vh.report.details.missingTables) = Cardinality(Required \ vh.existing)

C13_Witness ==
  /\ SchemaChecked
  /\ vh.existing = TableNames \ {"outfits"}
  /\ vh.report.details = [missingTables |-> <<"outfits">>]

\* C14 as stated: whichever internal step fails (probe, catalog query,
\* reading the result, pool-status snapshot), the report is healthy:false with
\* details.error.
C14_EveryFailureHasErrorDetail ==
  (vh.pc = "returned" /\ (ConnectivityFailed \/ vh.failed # "none")) =>
    /\ vh.report.healthy = FALSE
    /\ "error" \in DOMAIN vh.report.details

\* C14: verifyDatabaseHealth always returns a report: a failed connectivity
\* test gives healthy:false with details null; a failed catalog query, result
\* read or pool-status snapshot gives healthy:false with details.error
\* holding the error text.
C14_FailuresBecomeReports ==
  /\ ConnectivityFailed =>
       vh.report.healthy = FALSE /\ vh.report.details = Null /\ vh.failed = "none"
  /\ vh.failed # "none" =>
       /\ vh.pc = "returned"
       /\ vh.report.healthy = FALSE
       /\ vh.report.details = [error |-> vh.thrown]
       /\ vh.thrown # Undefined

C14_Witness ==
  /\ vh.pc = "returned"
  /\ vh.failed = "pool status"
  /\ vh.report.details = [error |-> "pool status failed"]

\* C15: GET /api/health writes exactly one response per request: 200 with
\* status "OK" exactly when verifyDatabaseHealth reported healthy:true (and
\* the handler did not throw), 500 with status "ERROR" in every other case.
C15_HealthRoute ==
  /\ hr.pc # "done" => hr.responses = 0
  /\ hr.pc = "done" =>
       /\ hr.responses = 1
       /\ \/ hr.response.status = 200 /\ hr.response.body.status = "OK"
          \/ hr.response.status = 500 /\ hr.response.body.status = "ERROR"
       /\ hr.response.status = 200 <=> (vh.report.healthy /\ ~hr.threw)

C15_Witness ==
  /\ hr.pc = "done"
  /\ ~vh.report.healthy
  /\ ~hr.threw
  /\ hr.response.status = 500
  /\ hr.response.body.database.status = "disconnected"

\* errorHandler has answered the current wrapped request
Answered == wr.pc = "done" /\ wr.errorArg # NoError

\* C16: errorHandler answers every error once, by the first kind that fits:
\* an ApiError with its own status and code = errorCode, or "ERROR_" +
\* statusCode when errorCode is unset; otherwise a ZodError with 400 and
\* VALIDATION_ERROR; otherwise 500 and INTERNAL_SERVER_ERROR.
C16_ThreeKinds ==
  Answered =>
    /\ wr.responses = 1
    /\ DOMAIN wr.response.body = {"error"}
    /\ "code" \in DOMAIN wr.response.body.error
    /\ wr.errorArg.kind = "ApiError" =>
         /\ wr.response.status = wr.errorArg.statusCode
         /\ wr.response.body.error.code =
              (IF wr.errorArg.errorCode \in {Undefined, ""}
                 THEN "ERROR_" \o ToString(wr.errorArg.statusCode)
                 ELSE wr.errorArg.errorCode)
    /\ wr.errorArg.kind = "ZodError" =>
         wr.response.status = 400 /\ wr.response.body.error.code = "VALIDATION_ERROR"
    /\ wr.errorArg.kind \notin {"ApiError", "ZodError"} =>
         wr.response.status = 500 /\ wr.response.body.error.code = "INTERNAL_SERVER_ERROR"

C16_Witness ==
  /\ Answered
  /\ wr.errorArg.kind = "ApiError"
  /\ wr.errorArg.errorCode = Undefined
  /\ wr.errorArg.statusCode = 404
  /\ wr.response.body.error.code = "ERROR_404"

\* C17: in production every unclassified error gets the same response
\* whatever its message (500, the generic message, INTERNAL_SERVER_ERROR);
\* outside production the response message is the error's message.
C17_RedactedInProduction ==
  (Answered /\ wr.errorArg.kind = "Error") =>
    /\ production =>
         wr.response =
           [status |-> 500,
            body |-> [error |-> [message |-> "An unexpected error occurred",
                                 code |-> "INTERNAL_SERVER_ERROR"]]]
    /\ ~production => wr.response.body.error.message = wr.errorArg.message

C17_Witness ==
  /\ Answered
  /\ production
  /\ wr.errorArg.kind = "Error"
  /\ wr.errorArg.message = "Y"
  /\ wr.response.body.error.message = "An unexpected error occurred"

\* C18: if fn throws synchronously or rejects with e, the wrapper calls
\* next(e) exactly once and nothing escapes the wrapper; if fn completes
\* normally the wrapper does not call next with an error.
C18_WrapperForwards ==
  wr.pc \in {"error", "done"} =>
    /\ wr.fn.how \in {"throw", "reject"} =>
         wr.nextCalls = 1 /\ wr.nextArg = wr.fn.error /\ wr.escaped = NoError
    /\ wr.fn.how = "return" => wr.nextCalls = 0 /\ wr.nextArg = NoError

\* C19: for every ApiError e, the response to a wrapped handler rejecting
\* with e is the response errorHandler gives when e is passed to it directly.
C19_SamePathIndependent ==
  (wr.pc = "done" /\ Rejects(wr.fn) /\ wr.fn.error.kind = "ApiError") =>
    wr.response = errorHandler(wr.fn.error, production)

C19_Witness ==
  /\ wr.pc = "done"
  /\ wr.fn.how = "reject"
  /\ wr.fn.error = ApiError("X", 404, Undefined, Undefined)
  /\ wr.response =
       [status |-> 404, body |-> [error |-> [message |-> "X", code |-> "ERROR_404"]]]

\* C20: every error response (status >= 400) is written by the central
\* errorHandler and has the envelope {error: {...}}; no route handler writes
\* an error body itself.
C20_ErrorsOnlyFromErrorHandler ==
  (reqPc = "done" /\ response.status >= 400) =>
    writer = "errorHandler" /\ DOMAIN response.body = {"error"}

\* a reconnection sequence is running and no pool 'connect' event has come
\* since the error event that began it
RunningUnconnected == isReconnecting /\ ~seqConnected

\* C21: a reconnection sequence in which every probe fails and no 'connect'
\* event comes makes exactly MAX_RECONNECT_ATTEMPTS probes: after its k-th
\* probe has started the attempt count is k, every failure below the maximum
\* leaves exactly one retry timer, and the sequence gives up at its
\* MAX_RECONNECT_ATTEMPTS-th failure.
C21_TenProbesThenGiveUp ==
  /\ RunningUnconnected =>
       /\ reconnectAttempts = seqProbes
       /\ seqProbes <= MAX_RECONNECT_ATTEMPTS
       /\ InFlight = 1
  /\ (dbLog = LogMaxReached /\ ~seqConnected) =>
       seqProbes = MAX_RECONNECT_ATTEMPTS /\ rcTimers = 0

\* C22: a pool error event arriving while isReconnecting is true changes
\* neither isReconnecting, nor the attempt count, nor the pending timers, nor
\* the probe in progress.
C22_ReentrantErrorIgnored ==
  [][(PoolError /\ isReconnecting) =>
       UNCHANGED <<isReconnecting, reconnectAttempts, rcTimers, rcConnecting, rcQuerying>>]_vars

C22_Witness ==
  /\ isReconnecting
  /\ dbLog = LogIdleError
  /\ rcQuerying = 1
  /\ reconnectAttempts = 3

\* C25: when every started probe completes and every scheduled timer fires,
\* every reconnection sequence eventually ends with isReconnecting false,
\* whatever the pool does, 'connect' events during the sequence included.
C25_SequenceEnds == isReconnecting ~> ~isReconnecting

\* C26: the probes of one reconnection sequence never exceed
\* MAX_RECONNECT_ATTEMPTS, also when a probe's 'connect' event resets the
\* attempt count and its query then fails.
C26_ProbesPerSequenceBounded == seqProbes <= MAX_RECONNECT_ATTEMPTS

\* C24: each gate, for every request, calls next exactly once, with no
\* argument or with one ApiError, and neither writes a response nor changes
\* the request; requireRole and requireSelfOrAdmin test authentication first:
\* a request without identity gets 401, never 403, and the owner-id extractor
\* is not called for it.
C24_GatesOnlyDecide ==
  [][RunGate =>
       /\ nextCalls' = 1
       /\ nextArg'.kind \in {"none", "ApiError"}
       /\ UNCHANGED <<req, response, writer>>
       /\ (gate.kind \in {"requireRole", "requireSelfOrAdmin"} /\ ~HasIdentity) =>
            /\ nextArg'.kind = "ApiError"
            /\ nextArg'.statusCode = 401
            /\ extractorCalls' = 0]_vars

C24_Witness ==
  /\ reqPc = "error"
  /\ gate.kind = "requireSelfOrAdmin"
  /\ req.isAuthenticated = "true"
  /\ ~req.user.present
  /\ nextCalls = 1
  /\ nextArg.statusCode = 401
  /\ extractorCalls = 0

BothDone == \A i \in Slots : rs.slot[i].pc = "done"

Answer(r) == [status |-> r.status, body |-> r.body]

\* the answers of the two requests served one after the other, first a then b
SerialAnswers(a, b) ==
  LET first == Serve(rs.slot[a].q, rs.start, a)
      second == Serve(rs.slot[b].q, first.store, b)
  IN [i \in Slots |-> IF i = a THEN Answer(first) ELSE Answer(second)]

\* C23: for two concurrent requests on the same item, every interleaving of
\* their storage calls gives the answers of one of the two serial orders; in
\* particular a PATCH never answers 200 when the item was already deleted as
\* its update executed.
C23_AnswersSerializable ==
  /\ BothDone =>
       [i \in Slots |-> Answer(rs.slot[i])] \in {SerialAnswers(1, 2), SerialAnswers(2, 1)}
  /\ \A i \in Slots :
       (rs.slot[i].pc = "done" /\ rs.slot[i].q.method = "PATCH" /\ rs.slot[i].status = 200) =>
         rs.slot[i].presentAtWrite

\* C27: on /:id the checks resolve in the order 401, 404, 403; update and
\* delete are called only for an authenticated requester whose read returned
\* an item with userId equal to the requester's id; no role, admin included,
\* passes the ownership check for another user's item.
C27_OwnershipOrder ==
  \A i \in Slots :
    LET r == rs.slot[i]
        authed == r.q.from.isAuthenticated = "true"
    IN /\ (r.pc \notin {"idle", "gate"} /\ ~authed) =>
            r.pc = "done" /\ r.status = 401 /\ r.reads = 0 /\ r.writes = 0
       /\ (r.pc \in {"writing", "done"} /\ authed /\ r.q.fails # "read") =>
            /\ ~r.item.present => r.status = 404 /\ r.writes = 0
            /\ (r.item.present /\ r.item.userId # r.q.from.user.id) =>
                 r.status = 403 /\ r.writes = 0
       /\ r.writes > 0 =>
            authed /\ r.item.present /\ r.item.userId = r.q.from.user.id
       /\ r.writes <= 1

\* an admin's DELETE of another user's item is answered 403 and nothing is deleted
C27_Witness ==
  \E i \in Slots :
    /\ rs.slot[i].pc = "done"
    /\ rs.slot[i].q.method = "DELETE"
    /\ rs.slot[i].q.from.user.role = "admin"
    /\ rs.slot[i].item.present
    /\ rs.slot[i].item.userId # rs.slot[i].q.from.user.id
    /\ rs.slot[i].status = 403
    /\ rs.store.present

\* C28: GET /shared/:shareId returns an outfit only if its owner has made a
\* share link for it through POST /:id/share before; an outfit never shared
\* cannot be fetched through the public endpoint with any shareId.
C28_OnlySharedOutfitsArePublic ==
  (sh.last.route = "shared" /\ sh.last.status = 200) => sh.last.outfitId \in sh.shared

\* C29: decoding the token POST /:id/share made for an outfit id and a
\* timestamp, the way GET /shared/:shareId decodes it, gives that outfit id.
C29_ShareTokenRoundTrip ==
  /\ (sh.last.route = "share" /\ sh.last.status = 200) =>
       OutfitIdOf(sh.last.shareId) = sh.last.id
  /\ (sh.last.route = "shared" /\ sh.last.shareId \in
        {ShareId(id, now) : id \in {o.id : o \in SharedStore}, now \in Timestamps}) =>
       /\ sh.last.status = 200
       /\ sh.last.shareId \in {ShareId(sh.last.outfitId, now) : now \in Timestamps}

\* the link made for outfit 305 at time 42, "305-42", is "MzA1LTQy"
C29_Witness ==
  /\ sh.last.route = "share"
  /\ sh.last.id = 305
  /\ sh.last.shareId = <<12, 51, 0, 53, 11, 19, 16, 50>>
  /\ OutfitIdOf(sh.last.shareId) = 305

\* the query has both dates, startDate <= endDate
CalValid ==
  cal.pc = "done" /\ cal.startDate # NoDate /\ cal.endDate # NoDate
    /\ cal.startDate <= cal.endDate

\* C30: every request with valid startDate <= endDate (startDate = endDate
\* included) succeeds, whatever the number of outfits, and the outfit at
\* index i is planned for startDate + k days with k = i mod the day count,
\* 0 <= k < day count, which lies within the requested range.
C30_PlannedDatesInRange ==
  CalValid =>
    /\ cal.status = 200
    /\ Len(cal.planned) = cal.outfits
    /\ \A i \in 1..cal.outfits :
         LET count == Ceil(cal.endDate - cal.startDate, DayMs)
             k == (i - 1) % count
         IN /\ k < count
            /\ cal.planned[i] = IsoDay(cal.startDate + k * DayMs)
            /\ cal.planned[i] >= IsoDay(cal.startDate)
            /\ cal.planned[i] <= IsoDay(cal.endDate)

====
